---- MODULE Spec2Model ----
(***************************************************************************)
(* Dungeon explorer (src/python.py): the world dict, build_world,          *)
(* try_move, spawn_exit, maybe_spawn and the command loop game_loop.       *)
(*                                                                         *)
(* The grid is the list of rows of the source: grid[y][x] of the source is *)
(* grid[y + 1][x + 1] here (sequences are 1-based).  Every call of the     *)
(* random module is a nondeterministic choice over all values it can       *)
(* return, so an operation of the source is the SET of worlds it can       *)
(* leave.                                                                  *)
(***************************************************************************)
EXTENDS Integers, Sequences, FiniteSets, TLC

VARIABLES
    world,      \* the dict `world` of game_loop (NoWorld when build_world raised)
    width,      \* parameter width of game_loop
    height,     \* parameter height of game_loop
    status,     \* "running": in the while loop, "returned": game_loop returned,
                \* "raised": an exception left game_loop
    last,       \* history: the branch of the loop that ran last
    \* the quote utility (src/trump_quote.py)
    pc,         \* position in main / get_random_trump_quote ("off": not run)
    net,        \* what the network answers to the request
    data,       \* the variable data of get_random_trump_quote
    quote,      \* the value get_random_trump_quote returned
    exc,        \* the exception being propagated
    out,        \* the lines printed
    requests    \* history: the number of calls of urlopen

game_vars == <<world, width, height, status, last>>

quote_vars == <<pc, net, data, quote, exc, out, requests>>

vars == <<world, width, height, status, last,
          pc, net, data, quote, exc, out, requests>>

----------------------------------------------------------------------------
(* Bounds of the model *)

\* try_move is not applied once turn has reached MaxTurn (turn is unbounded
\* in the source)
MaxTurn == 6

\* the (width, height) pairs game_loop is started with
Dims ==
    { <<0, 0>>, <<0, 3>>, <<3, 0>>, <<1, 1>>, <<2, 2>>, <<2, 4>>,
      <<3, 3>>, <<4, 3>>, <<3, 4>>, <<5, 3>> }

----------------------------------------------------------------------------
(* Cell symbols *)

FLOOR    == "."
WALL     == "#"
TREASURE == "T"
TRAP     == "X"
HEAL     == "<3"
EXIT     == "E"

(* Messages; a message is the sequence of the texts concatenated into it *)

MsgWelcome  == "Bienvenue ! Deplace-toi avec zqsd (ou wasd)."
MsgWall     == "Ouch, un mur !"
MsgTreasure == "Tresor trouve ! +10 points."
MsgTrap     == "Piege ! -1 PV."
MsgHeal     == "Soin ! +2 PV."
MsgVictory  == "Tu as trouve la sortie ! VICTOIRE !"
MsgExit     == "Tous les tresors sont ramasses ! Une sortie 'E' est apparue !"
MsgExitFail == "Sortie impossible a placer (carte trop remplie)."
MsgGold     == " (Un eclat dore apparait quelque part...)"
MsgDanger   == " (Une sensation de danger plane...)"
MsgHelp     == "AIDE: ..."
MsgUnknown  == "Commande inconnue. Tape 'h' pour l'aide."

Flavors ==
    { "Tu avances prudemment...",
      "Rien d'interessant ici.",
      "Le donjon est silencieux.",
      "Tu entends un bruit au loin" }

----------------------------------------------------------------------------
(* Utilities *)

Max(a, b) == IF a >= b THEN a ELSE b
Min(a, b) == IF a <= b THEN a ELSE b

clamp(n, lo, hi) == Max(lo, Min(hi, n))

GridH(grid) == Len(grid)
GridW(grid) == Len(grid[1])

Cell(grid, x, y) == grid[y + 1][x + 1]

SetCell(grid, x, y, symbol) == [grid EXCEPT ![y + 1][x + 1] = symbol]

\* the (x, y) of every cell of the grid
Cells(grid) ==
    IF GridH(grid) = 0 THEN {}
    ELSE (0 .. GridW(grid) - 1) \X (0 .. GridH(grid) - 1)

CellsWith(grid, symbol) == { c \in Cells(grid) : Cell(grid, c[1], c[2]) = symbol }

count_symbol(grid, symbol) == Cardinality(CellsWith(grid, symbol))

make_grid(w, h) == [y \in 1 .. h |-> [x \in 1 .. w |-> FLOOR]]

----------------------------------------------------------------------------
(* Exceptions: an operation that raises leaves this value instead of a world *)

Raise(kind) == [raised |-> kind]

IsRaise(w) == "raised" \in DOMAIN w

----------------------------------------------------------------------------
(* World generation *)

\* place_random: the loop stops with placed = count or after 10_000 draws.
\* A draw that hits a forbidden or occupied cell places nothing, so the loop
\* can stop after any number of placements up to count: every such grid is
\* an outcome.
RECURSIVE place_random(_, _, _, _)
place_random(grid, symbol, count, forbidden) ==
    LET free == { c \in CellsWith(grid, FLOOR) : c \notin forbidden }
    IN  IF count = 0 \/ free = {}
        THEN {grid}
        ELSE {grid} \cup
             UNION { place_random(SetCell(grid, c[1], c[2], symbol), symbol,
                                  count - 1, forbidden) : c \in free }

\* the cells build_world writes "#" to (lines 80-85) and forbids (lines 88-93)
BorderCells(w, h) ==
    { <<x, y>> \in (0 .. w - 1) \X (0 .. h - 1) :
        y = 0 \/ y = h - 1 \/ x = 0 \/ x = w - 1 }

\* faulty variant: the last column is left open
WithBordersOpenEast(grid, w, h) ==
    [y \in 1 .. h |-> [x \in 1 .. w |->
        IF y = 1 \/ y = h \/ x = 1 THEN WALL ELSE grid[y][x]]]

WithBorders(grid, w, h) ==
    [y \in 1 .. h |-> [x \in 1 .. w |->
        IF <<x - 1, y - 1>> \in BorderCells(w, h) THEN WALL ELSE grid[y][x]]]

\* build_world raises IndexError when a dimension is not positive:
\*   h <= 0 < w : grid is [] and line 81 reads grid[0]
\*   w <= 0 < h : the rows are [] and line 84 writes grid[y][0]
\*   w, h <= 0  : no loop runs and place_random reads grid[0] (line 47)
BuildRaises(w, h) == w <= 0 \/ h <= 0

\* faulty variant: a new world starts with 3 health points
NewWorldHp3(grid, px, py) ==
    [ grid         |-> grid,
      player_pos   |-> <<px, py>>,
      score        |-> 0,
      hp           |-> 3,
      turn         |-> 0,
      message      |-> <<MsgWelcome>>,
      exit_spawned |-> FALSE,
      won          |-> FALSE ]

NewWorld(grid, px, py) ==
    [ grid         |-> grid,
      player_pos   |-> <<px, py>>,
      score        |-> 0,
      hp           |-> 5,
      turn         |-> 0,
      message      |-> <<MsgWelcome>>,
      exit_spawned |-> FALSE,
      won          |-> FALSE ]

build_world(w, h) ==
    IF BuildRaises(w, h) THEN { Raise("IndexError") }
    ELSE
    LET px == w \div 2
        py == h \div 2
        forbidden == { <<px, py>> } \cup BorderCells(w, h)
        g0 == WithBorders(make_grid(w, h), w, h)
        G1 == place_random(g0, WALL, Max(6, (w * h) \div 18), forbidden)
        G2 == UNION { place_random(g, TREASURE, Max(4, (w * h) \div 30), forbidden)
                      : g \in G1 }
        G3 == UNION { place_random(g, TRAP, Max(4, (w * h) \div 35), forbidden)
                      : g \in G2 }
        G4 == UNION { place_random(g, HEAL, 1, forbidden) : g \in G3 }
    IN  { NewWorld(g, px, py) : g \in G4 }

\* build_world over the dimensions of the model
Worlds == [d \in Dims |-> build_world(d[1], d[2])]

----------------------------------------------------------------------------
(* Game logic *)

\* the cells randrange(1, w - 1) x randrange(1, h - 1) can draw
DrawRange(grid) == (1 .. GridW(grid) - 2) \X (1 .. GridH(grid) - 2)

\* faulty variant: the test against the player's cell is missing
FreeDrawsAnyFloor(w) ==
    { c \in DrawRange(w.grid) : Cell(w.grid, c[1], c[2]) = FLOOR }

\* the draws that pass both tests of the placement loops
\* (lines 165-167 and 252-254)
FreeDraws(w) ==
    { c \in DrawRange(w.grid) :
        c # w.player_pos /\ Cell(w.grid, c[1], c[2]) = FLOOR }

\* faulty variant: exit_spawned is set although no draw placed the exit
spawn_exit_flags_failure(w) ==
    IF GridW(w.grid) - 1 <= 1 \/ GridH(w.grid) - 1 <= 1
    THEN { Raise("ValueError") }
    ELSE
      { [w EXCEPT !.grid = SetCell(w.grid, c[1], c[2], EXIT),
                  !.exit_spawned = TRUE,
                  !.message = <<MsgExit>>] : c \in FreeDraws(w) }
      \cup
      ( IF DrawRange(w.grid) \ FreeDraws(w) # {}
        THEN { [w EXCEPT !.message = <<MsgExitFail>>, !.exit_spawned = TRUE] }
        ELSE {} )

\* spawn_exit: one of the 200 draws places the exit, or all of them miss
\* (possible as soon as one cell of the range fails a test);
\* randrange raises ValueError on an empty range
spawn_exit(w) ==
    IF GridW(w.grid) - 1 <= 1 \/ GridH(w.grid) - 1 <= 1
    THEN { Raise("ValueError") }
    ELSE
      { [w EXCEPT !.grid = SetCell(w.grid, c[1], c[2], EXIT),
                  !.exit_spawned = TRUE,
                  !.message = <<MsgExit>>] : c \in FreeDraws(w) }
      \cup
      ( IF DrawRange(w.grid) \ FreeDraws(w) # {}
        THEN { [w EXCEPT !.message = <<MsgExitFail>>] }
        ELSE {} )

\* faulty variant: the exit_spawned test is missing
maybe_spawn_always(w) ==
    {w}
    \cup
    ( IF GridW(w.grid) - 1 <= 1 \/ GridH(w.grid) - 1 <= 1
      THEN { Raise("ValueError") }
      ELSE
        { [w EXCEPT !.grid = SetCell(w.grid, c[1], c[2], TREASURE),
                    !.message = Append(w.message, MsgGold)]
          : c \in FreeDraws(w) }
        \cup
        { [w EXCEPT !.grid = SetCell(w.grid, c[1], c[2], TRAP),
                    !.message = Append(w.message, MsgDanger)]
          : c \in FreeDraws(w) } )

\* maybe_spawn: nothing once the exit has spawned; else roll picks "T", "X"
\* or nothing, and one of the 60 draws places the symbol or all of them miss
maybe_spawn(w) ==
    IF w.exit_spawned THEN {w}
    ELSE
      {w}
      \cup
      ( IF GridW(w.grid) - 1 <= 1 \/ GridH(w.grid) - 1 <= 1
        THEN { Raise("ValueError") }
        ELSE
          { [w EXCEPT !.grid = SetCell(w.grid, c[1], c[2], TREASURE),
                      !.message = Append(w.message, MsgGold)]
            : c \in FreeDraws(w) }
          \cup
          { [w EXCEPT !.grid = SetCell(w.grid, c[1], c[2], TRAP),
                      !.message = Append(w.message, MsgDanger)]
            : c \in FreeDraws(w) } )

\* the clamped target of a move (lines 179-185)
Target(w, dx, dy) ==
    << clamp(w.player_pos[1] + dx, 0, GridW(w.grid) - 1),
       clamp(w.player_pos[2] + dy, 0, GridH(w.grid) - 1) >>

\* faulty variant: a treasure is worth 5 points
cell_effect_treasure_five(w, nx, ny) ==
    LET target == Cell(w.grid, nx, ny)
        moved  == [w EXCEPT !.player_pos = <<nx, ny>>, !.turn = @ + 1]
    IN  CASE target = TREASURE ->
               { [moved EXCEPT !.score = @ + 5,
                               !.message = <<MsgTreasure>>,
                               !.grid = SetCell(w.grid, nx, ny, FLOOR)] }
          [] target = TRAP ->
               { [moved EXCEPT !.hp = @ - 1,
                               !.message = <<MsgTrap>>,
                               !.grid = SetCell(w.grid, nx, ny, FLOOR)] }
          [] target = HEAL ->
               { [moved EXCEPT !.hp = @ + 2,
                               !.message = <<MsgHeal>>,
                               !.grid = SetCell(w.grid, nx, ny, FLOOR)] }
          [] target = EXIT ->
               { [moved EXCEPT !.won = TRUE, !.message = <<MsgVictory>>] }
          [] OTHER ->
               { [moved EXCEPT !.message = <<f>>] : f \in Flavors }

\* faulty variant: the exit cell is consumed like the other symbols
cell_effect_exit_consumed(w, nx, ny) ==
    LET target == Cell(w.grid, nx, ny)
        moved  == [w EXCEPT !.player_pos = <<nx, ny>>, !.turn = @ + 1]
    IN  CASE target = TREASURE ->
               { [moved EXCEPT !.score = @ + 10,
                               !.message = <<MsgTreasure>>,
                               !.grid = SetCell(w.grid, nx, ny, FLOOR)] }
          [] target = TRAP ->
               { [moved EXCEPT !.hp = @ - 1,
                               !.message = <<MsgTrap>>,
                               !.grid = SetCell(w.grid, nx, ny, FLOOR)] }
          [] target = HEAL ->
               { [moved EXCEPT !.hp = @ + 2,
                               !.message = <<MsgHeal>>,
                               !.grid = SetCell(w.grid, nx, ny, FLOOR)] }
          [] target = EXIT ->
               { [moved EXCEPT !.won = TRUE, !.message = <<MsgVictory>>,
                               !.grid = SetCell(w.grid, nx, ny, FLOOR)] }
          [] OTHER ->
               { [moved EXCEPT !.message = <<f>>] : f \in Flavors }

\* faulty variant: a trap stays on its cell
cell_effect_trap_stays(w, nx, ny) ==
    LET target == Cell(w.grid, nx, ny)
        moved  == [w EXCEPT !.player_pos = <<nx, ny>>, !.turn = @ + 1]
    IN  CASE target = TREASURE ->
               { [moved EXCEPT !.score = @ + 10,
                               !.message = <<MsgTreasure>>,
                               !.grid = SetCell(w.grid, nx, ny, FLOOR)] }
          [] target = TRAP ->
               { [moved EXCEPT !.hp = @ - 1,
                               !.message = <<MsgTrap>>] }
          [] target = HEAL ->
               { [moved EXCEPT !.hp = @ + 2,
                               !.message = <<MsgHeal>>,
                               !.grid = SetCell(w.grid, nx, ny, FLOOR)] }
          [] target = EXIT ->
               { [moved EXCEPT !.won = TRUE, !.message = <<MsgVictory>>] }
          [] OTHER ->
               { [moved EXCEPT !.message = <<f>>] : f \in Flavors }

\* faulty variant: a heal gives 1 health point
cell_effect_heal_one(w, nx, ny) ==
    LET target == Cell(w.grid, nx, ny)
        moved  == [w EXCEPT !.player_pos = <<nx, ny>>, !.turn = @ + 1]
    IN  CASE target = TREASURE ->
               { [moved EXCEPT !.score = @ + 10,
                               !.message = <<MsgTreasure>>,
                               !.grid = SetCell(w.grid, nx, ny, FLOOR)] }
          [] target = TRAP ->
               { [moved EXCEPT !.hp = @ - 1,
                               !.message = <<MsgTrap>>,
                               !.grid = SetCell(w.grid, nx, ny, FLOOR)] }
          [] target = HEAL ->
               { [moved EXCEPT !.hp = @ + 1,
                               !.message = <<MsgHeal>>,
                               !.grid = SetCell(w.grid, nx, ny, FLOOR)] }
          [] target = EXIT ->
               { [moved EXCEPT !.won = TRUE, !.message = <<MsgVictory>>] }
          [] OTHER ->
               { [moved EXCEPT !.message = <<f>>] : f \in Flavors }

\* lines 192-219: the move and the interaction with the target cell
cell_effect(w, nx, ny) ==
    LET target == Cell(w.grid, nx, ny)
        moved  == [w EXCEPT !.player_pos = <<nx, ny>>, !.turn = @ + 1]
    IN  CASE target = TREASURE ->
               { [moved EXCEPT !.score = @ + 10,
                               !.message = <<MsgTreasure>>,
                               !.grid = SetCell(w.grid, nx, ny, FLOOR)] }
          [] target = TRAP ->
               { [moved EXCEPT !.hp = @ - 1,
                               !.message = <<MsgTrap>>,
                               !.grid = SetCell(w.grid, nx, ny, FLOOR)] }
          [] target = HEAL ->
               { [moved EXCEPT !.hp = @ + 2,
                               !.message = <<MsgHeal>>,
                               !.grid = SetCell(w.grid, nx, ny, FLOOR)] }
          [] target = EXIT ->
               { [moved EXCEPT !.won = TRUE, !.message = <<MsgVictory>>] }
          [] OTHER ->
               { [moved EXCEPT !.message = <<f>>] : f \in Flavors }

\* faulty variant: the exit is spawned while treasures remain
exit_check_ignore_treasures(w) ==
    IF ~w.exit_spawned THEN spawn_exit(w) ELSE {w}

\* faulty variant: the exit is spawned again although one has spawned
exit_check_every_move(w) ==
    IF count_symbol(w.grid, TREASURE) = 0 THEN spawn_exit(w) ELSE {w}

\* lines 221-223
exit_check(w) ==
    IF (~w.exit_spawned) /\ count_symbol(w.grid, TREASURE) = 0
    THEN spawn_exit(w)
    ELSE {w}

\* lines 221-226, skipped when the move won (return of line 212); an
\* exception of spawn_exit leaves try_move before maybe_spawn
post_move(w) ==
    IF w.won THEN {w}
    ELSE UNION { IF IsRaise(e) THEN {e} ELSE maybe_spawn(e) : e \in exit_check(w) }

\* faulty variant: a blocked move counts as a turn
try_move_counts_blocked(w, dx, dy) ==
    LET t == Target(w, dx, dy)
    IN  IF Cell(w.grid, t[1], t[2]) = WALL
        THEN { [w EXCEPT !.message = <<MsgWall>>, !.turn = @ + 1] }
        ELSE UNION { post_move(e) : e \in cell_effect(w, t[1], t[2]) }

\* faulty variant: the wall test is missing
try_move_through_walls(w, dx, dy) ==
    LET t == Target(w, dx, dy)
    IN  UNION { post_move(e) : e \in cell_effect(w, t[1], t[2]) }

try_move(w, dx, dy) ==
    LET t == Target(w, dx, dy)
    IN  IF Cell(w.grid, t[1], t[2]) = WALL
        THEN { [w EXCEPT !.message = <<MsgWall>>] }
        ELSE UNION { post_move(e) : e \in cell_effect(w, t[1], t[2]) }

----------------------------------------------------------------------------
(* Commands *)

IsSpace(c) == c \in {" ", "\t", "\n"}

RECURSIVE lstrip(_)
lstrip(s) ==
    IF s = <<>> THEN s
    ELSE IF IsSpace(Head(s)) THEN lstrip(Tail(s)) ELSE s

RECURSIVE rstrip(_)
rstrip(s) ==
    IF s = <<>> THEN s
    ELSE IF IsSpace(s[Len(s)]) THEN rstrip(SubSeq(s, 1, Len(s) - 1)) ELSE s

strip(s) == rstrip(lstrip(s))

UpperCase == <<"A", "D", "H", "Q", "R", "S", "W", "X", "Z">>
LowerCase == <<"a", "d", "h", "q", "r", "s", "w", "x", "z">>

lower_char(c) ==
    IF \E i \in 1 .. Len(UpperCase) : UpperCase[i] = c
    THEN LowerCase[CHOOSE i \in 1 .. Len(UpperCase) : UpperCase[i] = c]
    ELSE c

lower(s) == [i \in 1 .. Len(s) |-> lower_char(s[i])]

\* cmd.strip().lower()[:1] if cmd else ""
parse_command(cmd) ==
    IF cmd = <<>> THEN ""
    ELSE LET s == lower(strip(cmd))
         IN  IF s = <<>> THEN "" ELSE s[1]

\* the lines typed at the prompts, as sequences of characters
RawInputs ==
    { <<>>, <<" ">>, <<"z">>, <<"Z">>, <<"w">>, <<"s">>, <<"q">>, <<"a">>,
      <<"d">>, <<" ", "D", " ">>, <<"r">>, <<"R", "x">>, <<"h">>, <<"H", "i">>,
      <<"x">>, <<"X">>, <<"?">>, <<"e">> }

\* what parse_command makes of them
Commands == { parse_command(raw) : raw \in RawInputs }

moves ==
    [ c \in {"z", "w", "s", "q", "a", "d"} |->
        CASE c \in {"z", "w"} -> <<0, -1>>
          [] c = "s"          -> <<0, 1>>
          [] c \in {"q", "a"} -> <<-1, 0>>
          [] c = "d"          -> <<1, 0>> ]

----------------------------------------------------------------------------
(* The quote utility (src/trump_quote.py)                                  *)
(*                                                                         *)
(* A text is the sequence of its characters.  A JSON value is a record     *)
(* [t, v]: t is its type ("absent" for a missing field) and v its text.    *)
(* A response body is [kind, message]: kind is "bad_utf8", "bad_json" or   *)
(* the type of the top-level JSON value; message is the field "message" of *)
(* an object.                                                              *)

NoValue == [t |-> "absent", v |-> <<>>]

\* the values of the field "message" the model draws from
MessageValues ==
    { NoValue,
      [t |-> "null", v |-> <<>>],
      [t |-> "str",  v |-> <<>>],
      [t |-> "str",  v |-> <<"q">>],
      [t |-> "str",  v |-> <<" ", "q", " ">>],
      [t |-> "str",  v |-> <<" ">>],
      [t |-> "num",  v |-> <<"0">>],
      [t |-> "num",  v |-> <<"4", "2">>],
      [t |-> "list", v |-> <<"x">>] }

Bodies ==
    { [kind |-> k, message |-> NoValue] :
        k \in {"bad_utf8", "bad_json", "null", "list", "str", "num"} }
    \cup { [kind |-> "object", message |-> m] : m \in MessageValues }

\* the exception classes that occur, with their base class
BaseClass ==
    [ c \in { "Exception", "OSError", "URLError", "HTTPError", "TimeoutError",
              "HTTPException", "IncompleteRead", "RemoteDisconnected",
              "ValueError", "UnicodeDecodeError", "JSONDecodeError",
              "RuntimeError", "AttributeError" } |->
        CASE c = "Exception"          -> "BaseException"
          [] c = "OSError"            -> "Exception"
          [] c = "URLError"           -> "OSError"
          [] c = "HTTPError"          -> "URLError"
          [] c = "TimeoutError"       -> "OSError"
          [] c = "HTTPException"      -> "Exception"
          [] c = "IncompleteRead"     -> "HTTPException"
          [] c = "RemoteDisconnected" -> "HTTPException"
          [] c = "ValueError"         -> "Exception"
          [] c = "UnicodeDecodeError" -> "ValueError"
          [] c = "JSONDecodeError"    -> "ValueError"
          [] c = "RuntimeError"       -> "Exception"
          [] c = "AttributeError"     -> "Exception" ]

\* isinstance(e, class), as an except clause tests it
RECURSIVE IsInstance(_, _)
IsInstance(type, class) ==
    \/ type = class
    \/ type \in DOMAIN BaseClass /\ IsInstance(BaseClass[type], class)

NoExc == [type |-> "none", msg |-> "none"]

Exc(type, msg) == [type |-> type, msg |-> msg]

\* what the network can answer to urlopen (line 23): an exception, or a
\* response with a 2xx status (urlopen raises HTTPError for the others),
\* whose read() succeeds or raises
NetAnswers ==
    { [kind |-> "raise", type |-> t, status |-> 0, read |-> "none",
       body |-> [kind |-> "none", message |-> NoValue]] :
        t \in {"URLError", "HTTPError", "TimeoutError", "RemoteDisconnected"} }
    \cup
    { [kind |-> "response", type |-> "none", status |-> st, read |-> r, body |-> b] :
        st \in {200, 204}, r \in {"ok", "IncompleteRead", "TimeoutError"},
        b \in Bodies }

NoAnswer ==
    [kind |-> "none", type |-> "none", status |-> 0, read |-> "none",
     body |-> [kind |-> "none", message |-> NoValue]]

NoData == [kind |-> "none", message |-> NoValue]

\* the run of the utility has not started (the game runs)
QuoteOff ==
    /\ pc = "off"
    /\ net = NoAnswer
    /\ data = NoData
    /\ quote = <<>>
    /\ exc = NoExc
    /\ out = <<>>
    /\ requests = 0

\* the game does not run
GameOff ==
    /\ world = Raise("not started")
    /\ width = 0
    /\ height = 0
    /\ status = "off"
    /\ last = [phase |-> "off", op |-> "none", d |-> <<0, 0>>]

QInit ==
    /\ GameOff
    /\ pc = "main"
    /\ net = NoAnswer
    /\ data = NoData
    /\ quote = <<>>
    /\ exc = NoExc
    /\ out = <<>>
    /\ requests = 0

\* line 23: urlopen; an exception is raised inside the try of line 22
Urlopen ==
    /\ pc = "main"
    /\ \E a \in NetAnswers :
         /\ net' = a
         /\ IF a.kind = "raise"
            THEN /\ exc' = Exc(a.type, "network")
                 /\ pc' = "except_fetch"
            ELSE /\ exc' = exc
                 /\ pc' = "status"
    /\ requests' = requests + 1
    /\ UNCHANGED <<data, quote, out>>
    /\ UNCHANGED game_vars

\* lines 24-25
CheckStatus ==
    /\ pc = "status"
    /\ IF net.status # 200
       THEN /\ exc' = Exc("RuntimeError", "Reponse HTTP inattendue")
            /\ pc' = "except_fetch"
       ELSE /\ exc' = exc
            /\ pc' = "read"
    /\ UNCHANGED <<net, data, quote, out, requests>>
    /\ UNCHANGED game_vars

\* line 26: resp.read(), decode("utf-8"), json.loads
ReadDecode ==
    /\ pc = "read"
    /\ CASE net.read # "ok" ->
              /\ exc' = Exc(net.read, "read")
              /\ pc' = "except_fetch"
              /\ data' = data
         [] net.read = "ok" /\ net.body.kind = "bad_utf8" ->
              /\ exc' = Exc("UnicodeDecodeError", "decode")
              /\ pc' = "except_fetch"
              /\ data' = data
         [] net.read = "ok" /\ net.body.kind = "bad_json" ->
              /\ exc' = Exc("JSONDecodeError", "loads")
              /\ pc' = "except_fetch"
              /\ data' = data
         [] OTHER ->
              /\ exc' = exc
              /\ pc' = "extract"
              /\ data' = net.body
    /\ UNCHANGED <<net, quote, out, requests>>
    /\ UNCHANGED game_vars

\* lines 28-31: the except clauses of get_random_trump_quote
ExceptFetch ==
    /\ pc = "except_fetch"
    /\ exc' = CASE IsInstance(exc.type, "URLError") ->
                     Exc("RuntimeError", "Impossible de contacter l'API")
                [] IsInstance(exc.type, "JSONDecodeError") ->
                     Exc("RuntimeError", "Reponse recue mais JSON invalide.")
                [] OTHER -> exc
    /\ pc' = "except_main"
    /\ UNCHANGED <<net, data, quote, out, requests>>
    /\ UNCHANGED game_vars

\* not quote, for the values of the model
Falsy(value) ==
    \/ value.t \in {"absent", "null"}
    \/ value.t = "str" /\ value.v = <<>>
    \/ value.t = "num" /\ value.v = <<"0">>
    \/ value.t = "list" /\ value.v = <<>>

\* lines 33-37: only a dict has get; a missing field gives None
Extract ==
    /\ pc = "extract"
    /\ CASE data.kind # "object" ->
              /\ exc' = Exc("AttributeError", "object has no attribute 'get'")
              /\ pc' = "except_main"
              /\ quote' = quote
         [] data.kind = "object"
              /\ (Falsy(data.message) \/ data.message.t # "str") ->
              /\ exc' = Exc("RuntimeError", "Reponse inattendue de l'API")
              /\ pc' = "except_main"
              /\ quote' = quote
         [] OTHER ->
              /\ exc' = exc
              /\ pc' = "print"
              /\ quote' = strip(data.message.v)
    /\ UNCHANGED <<net, data, out, requests>>
    /\ UNCHANGED game_vars

\* lines 43-44
PrintQuote ==
    /\ pc = "print"
    /\ out' = out \o << <<"Citation aleatoire :">>, <<"quote", quote>> >>
    /\ pc' = "done"
    /\ UNCHANGED <<net, data, quote, exc, requests>>
    /\ UNCHANGED game_vars

\* faulty variant: main catches RuntimeError only
MainCatchesRuntimeError == "RuntimeError"

\* the class the except clause of main names (line 45)

MainCatches == "Exception"

\* lines 45-46: an exception main does not catch leaves the process
ExceptMain ==
    /\ pc = "except_main"
    /\ IF IsInstance(exc.type, MainCatches)
       THEN /\ out' = Append(out, <<"Erreur: ", exc.msg>>)
            /\ pc' = "done"
            /\ exc' = NoExc
       ELSE /\ out' = out
            /\ pc' = "crashed"
            /\ exc' = exc
    /\ UNCHANGED <<net, data, quote, requests>>
    /\ UNCHANGED game_vars

QNext ==
    \/ Urlopen
    \/ CheckStatus
    \/ ReadDecode
    \/ ExceptFetch
    \/ Extract
    \/ PrintQuote
    \/ ExceptMain

QuoteSpec == QInit /\ [][QNext]_vars

----------------------------------------------------------------------------
(* The command loop game_loop *)

Ran(phase, op, d) == [phase |-> phase, op |-> op, d |-> d]

\* world = build_world(width, height) of lines 269, 280, 290 and 302; an
\* exception of build_world leaves game_loop
Build(phase, op) ==
    /\ \E w \in Worlds[<<width, height>>] :
         /\ world' = w
         /\ status' = IF IsRaise(w) THEN "raised" ELSE "running"
    /\ last' = Ran(phase, op, <<0, 0>>)
    /\ UNCHANGED <<width, height>>
    /\ UNCHANGED quote_vars

\* return of lines 282, 292 and 297
Return(phase) ==
    /\ status' = "returned"
    /\ last' = Ran(phase, "return", <<0, 0>>)
    /\ UNCHANGED <<world, width, height>>
    /\ UNCHANGED quote_vars

\* the three places where the loop reads a command: lines 275-278,
\* 285-288 and 294
AtWonPrompt == status = "running" /\ world.won

AtLostPrompt == status = "running" /\ ~world.won /\ world.hp <= 0

\* faulty variant: the defeat test is missing
AtPromptIgnoreHp == status = "running" /\ ~world.won

\* faulty variant: the victory test is missing
AtPromptIgnoreWon == status = "running" /\ world.hp > 0

\* faulty variant: the defeat test is hp < 0
AtPromptOffByOne == status = "running" /\ ~world.won /\ world.hp >= 0

AtPrompt == status = "running" /\ ~world.won /\ world.hp > 0

Init ==
    /\ \E d \in Dims : width = d[1] /\ height = d[2]
    /\ world \in Worlds[<<width, height>>]
    /\ status = IF IsRaise(world) THEN "raised" ELSE "running"
    /\ last = Ran("start", "build_world", <<0, 0>>)
    /\ QuoteOff

\* lines 275-282
WonRestart ==
    /\ AtWonPrompt
    /\ \E cmd \in Commands : cmd = "r"
    /\ Build("won", "restart")

WonReturn ==
    /\ AtWonPrompt
    /\ \E cmd \in Commands : cmd # "r"
    /\ Return("won")

\* lines 285-292
LostRestart ==
    /\ AtLostPrompt
    /\ \E cmd \in Commands : cmd = "r"
    /\ Build("lost", "restart")

LostReturn ==
    /\ AtLostPrompt
    /\ \E cmd \in Commands : cmd # "r"
    /\ Return("lost")

\* lines 296-297
Quit ==
    /\ AtPrompt
    /\ \E cmd \in Commands : cmd = "x"
    /\ Return("play")

\* faulty variant: the help command counts as a turn
HelpCountsTurn ==
    /\ AtPrompt
    /\ \E cmd \in Commands : cmd = "h"
    /\ world' = [world EXCEPT !.message = <<MsgHelp>>, !.turn = @ + 1]
    /\ last' = Ran("play", "help", <<0, 0>>)
    /\ UNCHANGED <<width, height, status>>
    /\ UNCHANGED quote_vars

\* lines 298-300
Help ==
    /\ AtPrompt
    /\ \E cmd \in Commands : cmd = "h"
    /\ world' = [world EXCEPT !.message = <<MsgHelp>>]
    /\ last' = Ran("play", "help", <<0, 0>>)
    /\ UNCHANGED <<width, height, status>>
    /\ UNCHANGED quote_vars

\* lines 301-303
Restart ==
    /\ AtPrompt
    /\ \E cmd \in Commands : cmd = "r"
    /\ Build("play", "restart")

\* lines 315-317
Move ==
    /\ AtPrompt
    /\ world.turn < MaxTurn
    /\ \E cmd \in Commands :
             /\ cmd \in DOMAIN moves
             /\ \E w \in try_move(world, moves[cmd][1], moves[cmd][2]) :
                  /\ world' = IF IsRaise(w) THEN world ELSE w
                  /\ status' = IF IsRaise(w) THEN "raised" ELSE "running"
             /\ last' = Ran("play", "move", moves[cmd])
    /\ UNCHANGED <<width, height>>
    /\ UNCHANGED quote_vars

\* lines 318-319
Unknown ==
    /\ AtPrompt
    /\ \E cmd \in Commands :
         cmd \notin {"x", "h", "r"} /\ cmd \notin DOMAIN moves
    /\ world' = [world EXCEPT !.message = <<MsgUnknown>>]
    /\ last' = Ran("play", "unknown", <<0, 0>>)
    /\ UNCHANGED <<width, height, status>>
    /\ UNCHANGED quote_vars

Next ==
    \/ WonRestart
    \/ WonReturn
    \/ LostRestart
    \/ LostReturn
    \/ Quit
    \/ Help
    \/ Restart
    \/ Move
    \/ Unknown

Spec == Init /\ [][Next]_vars

----------------------------------------------------------------------------
(* Vocabulary of the properties *)

\* a world exists (build_world did not raise)
HasWorld == ~IsRaise(world)

\* the step is a call of try_move in direction last'.d
StepIsMove == last'.op = "move" /\ ~IsRaise(world')

\* the symbol of the clamped target cell of the move of this step
StepTarget == Target(world, last'.d[1], last'.d[2])

StepTargetSymbol == Cell(world.grid, StepTarget[1], StepTarget[2])

\* the world of build_world: lines 105-114
IsFresh(w) ==
    /\ w.score = 0
    /\ w.hp = 5
    /\ w.turn = 0
    /\ w.exit_spawned = FALSE
    /\ w.won = FALSE
    /\ w.message = <<MsgWelcome>>

----------------------------------------------------------------------------
(* C1: when the clamped target cell of try_move is a wall, the move leaves  *)
(* player_pos, turn, score, hp, grid, exit_spawned and won unchanged; only  *)
(* the message is overwritten, for each direction and every reachable world *)
C1_BlockedMoveFrame ==
    [][ (StepIsMove /\ StepTargetSymbol = WALL) =>
          /\ world'.player_pos = world.player_pos
          /\ world'.turn = world.turn
          /\ world'.score = world.score
          /\ world'.hp = world.hp
          /\ world'.grid = world.grid
          /\ world'.exit_spawned = world.exit_spawned
          /\ world'.won = world.won
          /\ world'.message = <<MsgWall>>
          /\ status' = "running" ]_vars

\* a blocked move made after a treasure was picked up and a trap was hit
C1_Witness ==
    /\ HasWorld
    /\ last.op = "move"
    /\ world.message = <<MsgWall>>
    /\ world.turn >= 2
    /\ world.score >= 10
    /\ world.hp < 5

(* C2: every cell of the border ring (row 0, row height-1, column 0, column *)
(* width-1) of every world build_world returns is a wall, and stays one     *)
(* after any sequence of moves, exit spawns and random event spawns         *)
C2_BorderIsWall ==
    HasWorld =>
      \A x \in 0 .. GridW(world.grid) - 1 : \A y \in 0 .. GridH(world.grid) - 1 :
        (x = 0 \/ y = 0 \/ x = GridW(world.grid) - 1 \/ y = GridH(world.grid) - 1)
          => Cell(world.grid, x, y) = WALL

\* the exit has spawned after a random event spawn left a trap on the grid
C2_Witness ==
    /\ HasWorld
    /\ world.exit_spawned
    /\ world.turn >= 3
    /\ world.score >= 10
    /\ count_symbol(world.grid, TRAP) >= 1
    /\ width = 5

(* C3 as stated: in every reachable state, for any width and height, the   *)
(* player position is within the grid and not on a wall cell                *)
PlayerOnOpenCell ==
    /\ world.player_pos[1] \in 0 .. GridW(world.grid) - 1
    /\ world.player_pos[2] \in 0 .. GridH(world.grid) - 1
    /\ Cell(world.grid, world.player_pos[1], world.player_pos[2]) # WALL

C3_Original == HasWorld => PlayerOnOpenCell

(* C3 amended: for a world built with width >= 3 and height >= 3, in every  *)
(* reachable state the player position is within the grid and not on a wall *)
C3_PlayerOnOpenCell ==
    (HasWorld /\ width >= 3 /\ height >= 3) => PlayerOnOpenCell

\* the player has moved away from the centre and tried a wall
C3_Witness ==
    /\ HasWorld
    /\ width >= 3 /\ height >= 3
    /\ world.turn >= 2
    /\ world.player_pos # <<width \div 2, height \div 2>>
    /\ world.message = <<MsgWall>>

(* C4: whenever try_move steps the player onto a treasure cell, score grows *)
(* by exactly 10, hp is unchanged and that cell is floor when try_move      *)
(* returns, after the exit check and the random event spawn of the move     *)
C4_TreasureStep ==
    [][ (StepIsMove /\ StepTargetSymbol = TREASURE) =>
          /\ world'.player_pos = StepTarget
          /\ world'.score = world.score + 10
          /\ world'.hp = world.hp
          /\ Cell(world'.grid, StepTarget[1], StepTarget[2]) = FLOOR ]_vars

\* a treasure was picked up and the random event spawn of the same move
\* placed something
C4_Witness ==
    /\ HasWorld
    /\ last.op = "move"
    /\ Len(world.message) = 2
    /\ world.message[1] = MsgTreasure
    /\ world.score >= 20

(* C5: whenever try_move steps the player onto a trap, hp decreases by      *)
(* exactly 1; onto a heal, hp increases by exactly 2; in both cases score   *)
(* is unchanged and the cell is cleared to floor.  From hp = 5, three trap  *)
(* hits with no heal (hp changes on trap and heal moves only, so this is hp *)
(* = 2 after three turns) leave hp = 2 and the world Active                 *)
C5_TrapAndHealSteps ==
    /\ [][ (StepIsMove /\ StepTargetSymbol = TRAP) =>
             /\ world'.hp = world.hp - 1
             /\ world'.score = world.score
             /\ Cell(world'.grid, StepTarget[1], StepTarget[2]) = FLOOR ]_vars
    /\ [][ (StepIsMove /\ StepTargetSymbol = HEAL) =>
             /\ world'.hp = world.hp + 2
             /\ world'.score = world.score
             /\ Cell(world'.grid, StepTarget[1], StepTarget[2]) = FLOOR ]_vars
    /\ [][ (StepIsMove /\ StepTargetSymbol \notin {TRAP, HEAL}) =>
             world'.hp = world.hp ]_vars
    /\ [][ (StepIsMove /\ StepTargetSymbol = TRAP /\ world.turn = 2 /\ world.hp = 3) =>
             (world'.hp = 2 /\ world'.hp > 0 /\ ~world'.won /\ status' = "running") ]_vars

\* three trap hits in the first four turns, then a heal
C5_Witness ==
    /\ HasWorld
    /\ world.turn = 5
    /\ world.hp = 4
    /\ world.score = 0
    /\ world.message[1] = MsgHeal


----------------------------------------------------------------------------
(* Vocabulary of the exit properties *)

\* the treasures left when try_move reaches its exit check (line 222): the
\* target's treasure, if any, has been consumed
TreasuresAtExitCheck ==
    count_symbol(world.grid, TREASURE)
      - (IF StepTargetSymbol = TREASURE THEN 1 ELSE 0)

\* a non-blocked, non-winning move that reaches the exit check with zero
\* treasures and exit_spawned = false
QualifyingMove ==
    /\ StepIsMove
    /\ StepTargetSymbol \notin {WALL, EXIT}
    /\ ~world.exit_spawned
    /\ TreasuresAtExitCheck = 0

\* the step is taken within one world instance (no build_world)
SameWorld == HasWorld /\ ~IsRaise(world') /\ last'.op # "restart"

\* the step places an exit on the grid of the world instance
ExitPlaced ==
    /\ SameWorld
    /\ CellsWith(world'.grid, EXIT) \ CellsWith(world.grid, EXIT) # {}

(* C6 as stated: every non-blocked, non-winning move that ends with zero    *)
(* treasures and exit_spawned = false places an exit, and no exit is placed *)
(* in any other situation                                                   *)
C6_Original ==
    /\ [][ QualifyingMove =>
             (ExitPlaced /\ world'.exit_spawned) ]_vars
    /\ [][ ExitPlaced => QualifyingMove ]_vars

(* C6 amended: every non-blocked, non-winning move that reaches the exit   *)
(* check with zero treasures and exit_spawned = false calls spawn_exit,     *)
(* which places exactly one exit and sets exit_spawned, unless all its 200  *)
(* draws miss: then no exit is placed, exit_spawned stays false and the     *)
(* message reports the failure.  No exit is placed in any other situation   *)
C6_ExitIffSpawnAttempt ==
    /\ [][ QualifyingMove =>
             \/ /\ ExitPlaced
                /\ world'.exit_spawned
                /\ count_symbol(world'.grid, EXIT) = 1
                /\ world'.message = <<MsgExit>>
             \/ /\ ~ExitPlaced
                /\ ~world'.exit_spawned
                /\ count_symbol(world'.grid, EXIT) = 0
                /\ world'.message[1] = MsgExitFail ]_vars
    /\ [][ ExitPlaced => QualifyingMove ]_vars

\* the last treasure was picked up after a failed placement, and the exit
\* has been placed
C6_Witness ==
    /\ HasWorld
    /\ world.exit_spawned
    /\ world.message = <<MsgExit>>
    /\ world.score >= 10
    /\ world.turn >= 3
    /\ count_symbol(world.grid, EXIT) = 1

(* C7: in every reachable state the grid holds 0 or 1 exit cell, and an     *)
(* exit is placed at most once in the lifetime of a world instance: once    *)
(* the exit is there, no action on that world places, moves or removes one  *)
C7_AtMostOneExit ==
    /\ [](HasWorld => count_symbol(world.grid, EXIT) <= 1)
    /\ [][ (SameWorld /\ (world.exit_spawned \/ count_symbol(world.grid, EXIT) >= 1)) =>
             /\ ~ExitPlaced
             /\ CellsWith(world'.grid, EXIT) = CellsWith(world.grid, EXIT)
             /\ world'.exit_spawned ]_vars

\* moves made with zero treasures after the exit has spawned, then victory
C7_Witness ==
    /\ HasWorld
    /\ world.exit_spawned
    /\ world.won
    /\ world.turn >= 4
    /\ count_symbol(world.grid, TREASURE) = 0
    /\ count_symbol(world.grid, EXIT) = 1

(* C8: once won is true for a world instance, no later action changes its   *)
(* score, hp or turn (nor anything else of it): the loop only returns, or   *)
(* replaces the world by a fresh build_world on restart                     *)
C8_WonIsTerminal ==
    [][ (HasWorld /\ world.won) =>
          \/ /\ world' = world
             /\ status' = "returned"
             /\ last' = Ran("won", "return", <<0, 0>>)
          \/ /\ last' = Ran("won", "restart", <<0, 0>>)
             /\ IsFresh(world')
             /\ status' = "running" ]_vars

\* the loop returned at the victory prompt
C8_Witness ==
    /\ HasWorld
    /\ world.won
    /\ status = "returned"
    /\ last = Ran("won", "return", <<0, 0>>)
    /\ world.score >= 10

(* C9: once an action has brought hp to 0 or below, no move, help or        *)
(* unknown-command action is applied to that world: the next command is     *)
(* read at the game-over prompt, where the loop only returns or replaces    *)
(* the world by a fresh build_world on restart                              *)
C9_LostIsTerminal ==
    [][ (HasWorld /\ world.hp <= 0) =>
          \/ /\ world' = world
             /\ status' = "returned"
             /\ last' = Ran("lost", "return", <<0, 0>>)
          \/ /\ last' = Ran("lost", "restart", <<0, 0>>)
             /\ IsFresh(world')
             /\ status' = "running" ]_vars

\* the fifth trap hit brought hp to 0 and the loop returned at the
\* game-over prompt
C9_Witness ==
    /\ HasWorld
    /\ world.hp <= 0
    /\ world.message[1] = MsgTrap
    /\ status = "returned"
    /\ last = Ran("lost", "return", <<0, 0>>)

(* C10: build_world(width, height) returns a grid exactly width wide and    *)
(* height tall with the player at (width // 2, height // 2), score = 0,     *)
(* hp = 5, turn = 0, exit_spawned = false, won = false and no exit cell; a  *)
(* restart from Active, Won or Lost leaves the world in exactly this state  *)
C10_FreshWorld ==
    (HasWorld /\ last.op \in {"build_world", "restart"}) =>
      /\ Len(world.grid) = height
      /\ \A y \in 1 .. height : Len(world.grid[y]) = width
      /\ world.player_pos = <<width \div 2, height \div 2>>
      /\ world.score = 0
      /\ world.hp = 5
      /\ world.turn = 0
      /\ world.exit_spawned = FALSE
      /\ world.won = FALSE
      /\ count_symbol(world.grid, EXIT) = 0

\* a restart at the game-over prompt
C10_Witness ==
    /\ HasWorld
    /\ last = Ran("lost", "restart", <<0, 0>>)
    /\ status = "running"
    /\ width = 5


----------------------------------------------------------------------------
(* C11: the help command and any unrecognized command change nothing of the *)
(* world but its message: grid, player_pos, score, hp, turn, exit_spawned   *)
(* and won are unchanged and no random spawn happens                        *)
C11_HelpUnknownFrame ==
    [][ (last'.op \in {"help", "unknown"}) =>
          /\ world'.grid = world.grid
          /\ world'.player_pos = world.player_pos
          /\ world'.score = world.score
          /\ world'.hp = world.hp
          /\ world'.turn = world.turn
          /\ world'.exit_spawned = world.exit_spawned
          /\ world'.won = world.won
          /\ world'.message =
               (IF last'.op = "help" THEN <<MsgHelp>> ELSE <<MsgUnknown>>)
          /\ status' = "running" ]_vars

\* help asked in the middle of a game, with treasures and a trap behind
C11_Witness ==
    /\ HasWorld
    /\ last.op = "help"
    /\ world.message = <<MsgHelp>>
    /\ world.turn >= 2
    /\ world.score >= 10
    /\ world.hp < 5

(* C12: no operation raises: build_world for any width and height and       *)
(* try_move in any direction from any reachable world complete normally     *)
C12_NoRaise == status # "raised" /\ HasWorld

(* C13: within one world instance turn grows by exactly 1 on each           *)
(* non-blocked move and is changed by nothing else, score never decreases,  *)
(* and score is always a non-negative multiple of 10                        *)
C13_TurnAndScore ==
    /\ [][ SameWorld =>
             /\ world'.turn =
                  (IF StepIsMove /\ StepTargetSymbol # WALL
                   THEN world.turn + 1 ELSE world.turn)
             /\ world'.score >= world.score ]_vars
    /\ [](HasWorld =>
             /\ world.turn >= 0
             /\ world.score >= 0
             /\ world.score % 10 = 0)

\* blocked moves, help and treasure pickups have happened: turn counts the
\* six non-blocked moves only
C13_Witness ==
    /\ HasWorld
    /\ world.turn = 6
    /\ world.score = 30
    /\ last.op = "help"


(* C15: within a non-blocked, non-winning move the cell effect comes first, *)
(* then the exit check, then the random event spawn, which places nothing   *)
(* once exit_spawned is true: the exit check counts the treasures left      *)
(* after the pickup, the move that places the exit spawns no treasure or    *)
(* trap, and none is added to the grid after the exit has spawned           *)
C15_NoSpawnOnceExit ==
    /\ [][ (SameWorld /\ world'.exit_spawned) =>
             /\ CellsWith(world'.grid, TREASURE) \subseteq CellsWith(world.grid, TREASURE)
             /\ CellsWith(world'.grid, TRAP) \subseteq CellsWith(world.grid, TRAP) ]_vars
    /\ [][ ExitPlaced => world'.message = <<MsgExit>> ]_vars
    /\ [][ (StepIsMove /\ StepTargetSymbol = TREASURE /\ ~world.exit_spawned
              /\ count_symbol(world.grid, TREASURE) = 1) =>
             (ExitPlaced \/ world'.message[1] = MsgExitFail) ]_vars
    /\ [][ (StepIsMove /\ StepTargetSymbol \notin {WALL, EXIT}
              /\ TreasuresAtExitCheck > 0) =>
             (~ExitPlaced /\ world'.message[1] # MsgExitFail) ]_vars

\* the first move picked up the only treasure and the exit spawned in it
C15_Witness ==
    /\ HasWorld
    /\ world.turn = 1
    /\ world.score = 10
    /\ world.exit_spawned
    /\ world.message = <<MsgExit>>
    /\ count_symbol(world.grid, TRAP) >= 1

(* C16: when spawn_exit exhausts its attempts, exit_spawned stays false,    *)
(* the grid holds no exit and the message reports the failure; the          *)
(* placement is attempted again on the next non-blocked, non-winning move   *)
(* that reaches the exit check with zero treasures                          *)
C16_ExhaustedThenRetried ==
    /\ [][ (QualifyingMove /\ ~ExitPlaced) =>
             /\ ~world'.exit_spawned
             /\ count_symbol(world'.grid, EXIT) = 0
             /\ world'.message[1] = MsgExitFail ]_vars
    /\ [](HasWorld =>
            (world.message[1] = MsgExitFail =>
               (~world.exit_spawned /\ count_symbol(world.grid, EXIT) = 0)))
    /\ [][ (HasWorld /\ world.message[1] = MsgExitFail /\ QualifyingMove) =>
             \/ ExitPlaced /\ world'.exit_spawned /\ world'.message = <<MsgExit>>
             \/ ~ExitPlaced /\ world'.message[1] = MsgExitFail ]_vars

\* no treasure was ever on the grid: the placement failed in the first move
\* and succeeded in the second
C16_Witness ==
    /\ HasWorld
    /\ world.turn = 2
    /\ world.score = 0
    /\ world.exit_spawned
    /\ world.message = <<MsgExit>>

(* C17: in every reachable state exit_spawned is true exactly when the grid *)
(* contains exactly one exit cell, and whenever exit_spawned is true the    *)
(* grid holds no treasure                                                   *)
C17_ExitFlagMatchesGrid ==
    HasWorld =>
      /\ world.exit_spawned <=> (count_symbol(world.grid, EXIT) = 1)
      /\ world.exit_spawned => count_symbol(world.grid, TREASURE) = 0

\* the player stands on the exit after treasures were picked up
C17_Witness ==
    /\ HasWorld
    /\ world.exit_spawned
    /\ world.won
    /\ world.score >= 20
    /\ Cell(world.grid, world.player_pos[1], world.player_pos[2]) = EXIT

(* C18: for a world created with width and height of at least 3, after      *)
(* build_world and after every action the cell under the player is floor,   *)
(* or the exit cell when won is true: the player never stands on a          *)
(* treasure, trap or heal                                                   *)
C18_PlayerCellIsFloor ==
    (HasWorld /\ width >= 3 /\ height >= 3) =>
      Cell(world.grid, world.player_pos[1], world.player_pos[2]) =
        (IF world.won THEN EXIT ELSE FLOOR)

\* a trap was hit and a random event spawn placed something in the same
\* move, with every other open cell occupied
C18_Witness ==
    /\ HasWorld
    /\ width = 5
    /\ ~world.won
    /\ Len(world.message) = 2
    /\ world.message[1] = MsgTrap
    /\ count_symbol(world.grid, FLOOR) = 1

(* C19: a world is never both Won and Lost: whenever won is true, hp is     *)
(* greater than 0                                                           *)
C19_WonImpliesAlive == (HasWorld /\ world.won) => world.hp > 0

\* victory with one health point left
C19_Witness ==
    /\ HasWorld
    /\ world.won
    /\ world.hp = 1


----------------------------------------------------------------------------
(* Vocabulary of the quote utility's property *)

\* the fetch fails: transport failure, non-200 status, failed read, text
\* that is not UTF-8 or not JSON, JSON that is not an object, or an object
\* without a non-empty string "message"
FetchFails ==
    \/ net.kind = "raise"
    \/ net.status # 200
    \/ net.read # "ok"
    \/ net.body.kind # "object"
    \/ net.body.message.t # "str"
    \/ net.body.message.v = <<>>

(* C14: main reports every failure of the fetch (transport failure, non-200 *)
(* status, invalid JSON, payload without a non-empty string "message",      *)
(* JSON payload that is not an object) as a single "Erreur: ..." line and   *)
(* then exits normally; no exception escapes main and no retry is made      *)
C14_FailureIsOneErrorLine ==
    /\ pc # "crashed"
    /\ requests <= 1
    /\ (pc = "done" /\ FetchFails) =>
         /\ Len(out) = 1
         /\ out[1][1] = "Erreur: "
         /\ exc = NoExc
         /\ requests = 1
    /\ (pc = "done" /\ ~FetchFails) =>
         /\ Len(out) = 2
         /\ out[2] = <<"quote", strip(net.body.message.v)>>

\* a JSON payload that is not an object was reported
C14_Witness ==
    /\ pc = "done"
    /\ net.kind = "response"
    /\ net.status = 200
    /\ net.read = "ok"
    /\ net.body.kind = "list"
    /\ out = << <<"Erreur: ", "object has no attribute 'get'">> >>

====
